---- MODULE Spec2Model ----
(***************************************************************************)
(* Model of freqtrade/rpc/telegram.py: the Telegram command / callback     *)
(* router, its configuration-editing conversation and send_msg.            *)
(*                                                                         *)
(* Python strings that the code inspects (callback payloads, free text,    *)
(* pair symbols) are sequences of one-character strings, so that upper(),  *)
(* split("_", 1), the `in` substring test, int() and float() are computed  *)
(* the way Python computes them.  Message texts the code only formats and  *)
(* hands to the transport are records [tag, arg].                          *)
(***************************************************************************)
EXTENDS Integers, Sequences, FiniteSets, TLC

(***************************************************************************)
(* Python string primitives                                                *)
(***************************************************************************)
LowerChars == <<"a","b","c","d","e","f","g","h","i","j","k","l","m",
                "n","o","p","q","r","s","t","u","v","w","x","y","z">>

UpperChars == <<"A","B","C","D","E","F","G","H","I","J","K","L","M",
                "N","O","P","Q","R","S","T","U","V","W","X","Y","Z">>

Digits == <<"0","1","2","3","4","5","6","7","8","9">>

\* str.upper() on one character
UpperChar(c) ==
    IF \E i \in DOMAIN LowerChars : LowerChars[i] = c
    THEN UpperChars[CHOOSE i \in DOMAIN LowerChars : LowerChars[i] = c]
    ELSE c

\* faulty variant of Upper: the text is compared as typed
UpperForgotten(s) == s

\* str.upper()
Upper(s) == [i \in DOMAIN s |-> UpperChar(s[i])]

\* str.lower() on one character (float() matches "nan" / "inf" in any case)
LowerChar(c) ==
    IF \E i \in DOMAIN UpperChars : UpperChars[i] = c
    THEN LowerChars[CHOOSE i \in DOMAIN UpperChars : UpperChars[i] = c]
    ELSE c

Lower(s) == [i \in DOMAIN s |-> LowerChar(s[i])]

\* sub in s
Contains(sub, s) ==
    \E i \in 1..(Len(s) - Len(sub) + 1) : SubSeq(s, i, i + Len(sub) - 1) = sub

\* s.startswith(sub)
StartsWith(sub, s) == Len(sub) <= Len(s) /\ SubSeq(s, 1, Len(sub)) = sub

\* index of the first "_" of s, 0 when there is none
FirstSep(s) ==
    IF \E i \in DOMAIN s : s[i] = "_"
    THEN CHOOSE i \in DOMAIN s : s[i] = "_" /\ \A j \in 1..(i - 1) : s[j] # "_"
    ELSE 0

\* len(s.split("_", 1)) > 1, i.e. s.split("_", 1)[1] does not raise IndexError
HasSep(s) == FirstSep(s) # 0

\* s.split("_", 1)[1]
SplitTail(s) == SubSeq(s, FirstSep(s) + 1, Len(s))

\* "{}_{}".format(a, b)
JoinSep(a, b) == a \o <<"_">> \o b

\* s.strip() for the one whitespace character of the inputs
RECURSIVE LStrip(_)
LStrip(s) == IF s # <<>> /\ Head(s) = " " THEN LStrip(Tail(s)) ELSE s

RECURSIVE RStrip(_)
RStrip(s) ==
    IF s # <<>> /\ s[Len(s)] = " " THEN RStrip(SubSeq(s, 1, Len(s) - 1)) ELSE s

Strip(s) == RStrip(LStrip(s))

IsDigit(c) == \E i \in DOMAIN Digits : Digits[i] = c

DigitVal(c) == (CHOOSE i \in DOMAIN Digits : Digits[i] = c) - 1

\* a digit group of a Python numeric literal: digits, single "_" between digits
DigitGroup(s) ==
    /\ s # <<>>
    /\ IsDigit(s[1]) /\ IsDigit(s[Len(s)])
    /\ \A i \in DOMAIN s : IsDigit(s[i]) \/ s[i] = "_"
    /\ \A i \in 1..(Len(s) - 1) : ~(s[i] = "_" /\ s[i + 1] = "_")

RECURSIVE GroupVal(_)
GroupVal(s) ==
    IF s = <<>> THEN 0
    ELSE LET c == s[Len(s)]
             r == SubSeq(s, 1, Len(s) - 1)
         IN  IF c = "_" THEN GroupVal(r) ELSE 10 * GroupVal(r) + DigitVal(c)

\* the number of digits of a digit group
GroupDigits(s) == Cardinality({i \in DOMAIN s : IsDigit(s[i])})

HasSign(s) == s # <<>> /\ s[1] \in {"+", "-"}

Unsigned(s) == IF HasSign(s) THEN Tail(s) ELSE s

SignOf(s) == IF s # <<>> /\ s[1] = "-" THEN -1 ELSE 1

\* int(text): [ok |-> FALSE] stands for ValueError
ParseInt(text) ==
    LET t == Strip(text)
        b == Unsigned(t)
    IN  IF DigitGroup(b)
        THEN [ok |-> TRUE, val |-> SignOf(t) * GroupVal(b)]
        ELSE [ok |-> FALSE, val |-> 0]
\* index of the first character of s that is in set cs, 0 when there is none
FirstOf(cs, s) ==
    IF \E i \in DOMAIN s : s[i] \in cs
    THEN CHOOSE i \in DOMAIN s : s[i] \in cs /\ \A j \in 1..(i - 1) : s[j] \notin cs
    ELSE 0

RECURSIVE Normalise(_, _)
\* the decimal m * 10^e with trailing zeros of m moved into e
Normalise(m, e) ==
    IF m = 0 THEN [kind |-> "num", m |-> 0, e |-> 0]
    ELSE IF m % 10 = 0 THEN Normalise(m \div 10, e + 1)
    ELSE [kind |-> "num", m |-> m, e |-> e]

RECURSIVE Pow10(_)
Pow10(n) == IF n <= 0 THEN 1 ELSE 10 * Pow10(n - 1)

\* the mantissa of a float literal: G, G., .G or G.G over digit groups
MantissaOk(s) ==
    LET d == FirstOf({"."}, s)
        ip == IF d = 0 THEN s ELSE SubSeq(s, 1, d - 1)
        fp == IF d = 0 THEN <<>> ELSE SubSeq(s, d + 1, Len(s))
    IN  /\ ip # <<>> \/ fp # <<>>
        /\ ip = <<>> \/ DigitGroup(ip)
        /\ fp = <<>> \/ DigitGroup(fp)

\* float(text): [ok |-> FALSE] stands for ValueError; a finite value is the
\* normalised decimal [m, e] (m * 10^e), nan and inf are values of their own
ParseFloat(text) ==
    LET t == Strip(text)
        b == Unsigned(t)
        x == FirstOf({"e", "E"}, b)
        mnt == IF x = 0 THEN b ELSE SubSeq(b, 1, x - 1)
        ex == IF x = 0 THEN <<>> ELSE SubSeq(b, x + 1, Len(b))
        d == FirstOf({"."}, mnt)
        ip == IF d = 0 THEN mnt ELSE SubSeq(mnt, 1, d - 1)
        fp == IF d = 0 THEN <<>> ELSE SubSeq(mnt, d + 1, Len(mnt))
        fd == GroupDigits(fp)
        ev == IF x = 0 THEN 0 ELSE SignOf(ex) * GroupVal(Unsigned(ex))
    IN  IF Lower(b) = <<"n","a","n">>
        THEN [ok |-> TRUE, val |-> [kind |-> "nan"]]
        ELSE IF Lower(b) \in {<<"i","n","f">>, <<"i","n","f","i","n","i","t","y">>}
        THEN [ok |-> TRUE, val |-> [kind |-> "inf", sign |-> SignOf(t)]]
        ELSE IF MantissaOk(mnt) /\ (x = 0 \/ DigitGroup(Unsigned(ex)))
        THEN [ok |-> TRUE,
              val |-> Normalise(SignOf(t) * (GroupVal(ip) * Pow10(fd) + GroupVal(fp)),
                                ev - fd)]
        ELSE [ok |-> FALSE, val |-> [kind |-> "nan"]]
(***************************************************************************)
(* Strings of the program and of its inputs                                *)
(***************************************************************************)
X_PREFIX == <<"x","_">>

DONE == <<"D","O","N","E">>

VIEW_CONFIG == <<"v","i","e","w","_","c","o","n","f","i","g">>

EDIT_CONFIG == <<"e","d","i","t","_","c","o","n","f","i","g">>

EDIT_MAX_OPEN_TRADES ==
    <<"e","d","i","t","_","m","a","x","_","o","p","e","n","_","t","r","a","d","e","s">>

EDIT_STAKE_AMOUNT ==
    <<"e","d","i","t","_","s","t","a","k","e","_","a","m","o","u","n","t">>

EDIT_PAIRS == <<"e","d","i","t","_","p","a","i","r","s">>

BTC == <<"B","T","C">>

ETH == <<"E","T","H">>

LTC == <<"L","T","C">>

\* the pairs the exchange supports
Markets == {JoinSep(BTC, ETH), JoinSep(BTC, LTC), JoinSep(BTC, <<"A","_","B">>)}

\* callback payloads the transport delivers: the five tokens, remove buttons,
\* a payload that only contains "x_", and one that matches nothing
Payloads ==
    {VIEW_CONFIG, EDIT_CONFIG, EDIT_MAX_OPEN_TRADES, EDIT_STAKE_AMOUNT, EDIT_PAIRS,
     X_PREFIX \o ETH, X_PREFIX \o LTC,
     <<"m","a","x","_","E","T","H">>, <<"n","o","o","p">>,
     X_PREFIX \o <<"a","_","b">>}

\* free texts the transport delivers
Texts ==
    {<<"d","o","n","e">>, <<"D","o","n","E">>,
     <<"e","t","h">>, <<"E","t","h">>, <<"l","t","c">>, <<"a","b","c">>,
     <<"5">>, <<"-","0",".","5">>}

\* chat identities: the configured one and a stranger's
ChatIds == {7001, 7002}

MessageIds == {41}

\* what one call of the transport can do
Outcomes == {"ok", "NetworkError", "TelegramError"}

\* the outcomes of the first transport calls of one handler run; later calls
\* succeed.  A second outcome is drawn only where a retry can read it.
Nets == {<<a>> : a \in Outcomes \ {"NetworkError"}}
            \cup {<<"NetworkError", b>> : b \in Outcomes}

Outcome(net, i) == IF i \in DOMAIN net THEN net[i] ELSE "ok"

\* the longest working list the model follows
MaxCoins == 2

(***************************************************************************)
(* State                                                                   *)
(***************************************************************************)
VARIABLES
    _CONF,            \* the configuration dict
    _CONVERSATION,    \* the conversation step
    _UPDATED_COINS,   \* the working pair list
    list_type,        \* what get_list_type() returns
    _UPDATER,         \* the Updater: its registered handlers, and whether it polls
    run               \* the handler run the dispatcher is in: its update and effects

vars == <<_CONF, _CONVERSATION, _UPDATED_COINS, list_type, _UPDATER, run>>

Conversation == {"IDLE", "MAX_OPEN_TRADES", "STAKE_AMOUNT", "UPDATE_COINS"}

ListType == {"STATIC", "DYNAMIC"}

NoRun == [kind |-> "none"]

\* Python's None, where a query is optional
None == [kind |-> "None"]

\* the state a handler leaves behind, the calls it made on its collaborators in
\* order, and whether an exception left it
Result(conv, coins, cf, effects, raised) ==
    [conv |-> conv, coins |-> coins, conf |-> cf, effects |-> effects, raised |-> raised]

Log(what) == [api |-> "log", what |-> what]

is_enabled == _CONF.enabled

\* _CONF = {} before init(config)
EmptyConf == <<>>

\* the configurations init is called with: telegram enabled or not
Configs ==
    {[enabled |-> enabled, chat_id |-> 7001,
      max_open_trades |-> 3,
      stake_amount |-> ParseFloat(<<"0",".","5">>).val,
      stake_currency |-> BTC,
      pair_whitelist |-> <<JoinSep(BTC, ETH)>>,
      pair_blacklist |-> <<JoinSep(BTC, LTC)>>] : enabled \in BOOLEAN}

\* the handlers init registers, in order: the 12 commands, the callback query
\* handler and the free-text handler
Registered ==
    <<"status", "profit", "balance", "start", "stop", "forcesell", "performance",
      "daily", "count", "config", "help", "version", "callback", "text">>

\* faulty variant of init: the updater is started whatever the enabled flag
init_unconditional(config) ==
    [updater |-> [handlers |-> Registered, polling |-> TRUE],
     effects |-> <<[api |-> "Updater"]>>
                 \o [i \in DOMAIN Registered |->
                        [api |-> "add_handler", handler |-> Registered[i]]]
                 \o <<[api |-> "start_polling"], Log("listening")>>]

\* init(config), after _CONF.update(config): the updater it leaves in _UPDATER
\* and the calls it makes
init(config) ==
    IF ~config.enabled
    THEN [updater |-> None, effects |-> <<>>]
    ELSE [updater |-> [handlers |-> Registered, polling |-> TRUE],
          effects |-> <<[api |-> "Updater"]>>
                      \o [i \in DOMAIN Registered |->
                             [api |-> "add_handler", handler |-> Registered[i]]]
                      \o <<[api |-> "start_polling"], Log("listening")>>]

\* cleanup(): the updater it leaves and the calls it makes
cleanup(updater) ==
    IF ~is_enabled
    THEN [updater |-> updater, effects |-> <<>>]
    ELSE [updater |-> [updater EXCEPT !.polling = FALSE],
          effects |-> <<[api |-> "stop"]>>]

\* the dispatcher delivers updates to a registered handler while the updater polls
Listening(handler) ==
    /\ _UPDATER # None
    /\ _UPDATER.polling
    /\ \E i \in DOMAIN _UPDATER.handlers : _UPDATER.handlers[i] = handler

(***************************************************************************)
(* Delivery                                                                *)
(***************************************************************************)
ReplyKeyboard ==
    [kind |-> "reply",
     rows |-> << <<"/daily", "/profit", "/balance", "/config">>,
                 <<"/status", "/status table", "/performance">>,
                 <<"/count", "/start", "/stop", "/help">> >>]

\* bot.send_message(chat_id, msg, parse_mode=..., reply_markup=...) of send_msg
SendAttempt(msg, parse_mode, outcome) ==
    [api |-> "send_message", chat_id |-> _CONF.chat_id, text |-> msg,
     parse_mode |-> parse_mode, reply_markup |-> ReplyKeyboard, outcome |-> outcome]

\* except NetworkError: the transient failures
IsNetworkError(outcome) == outcome = "NetworkError"

\* except TelegramError: every failure of the transport, NetworkError included
IsTelegramError(outcome) == outcome \in {"NetworkError", "TelegramError"}

\* faulty variant of send_msg: every failure of the first attempt is retried
send_msg_retry_any(msg, parse_mode, net) ==
    IF ~is_enabled THEN [effects |-> <<>>, raised |-> FALSE]
    ELSE LET first == SendAttempt(msg, parse_mode, Outcome(net, 1))
             again == SendAttempt(msg, parse_mode, Outcome(net, 2))
         IN  IF first.outcome = "ok"
             THEN [effects |-> <<first>>, raised |-> FALSE]
             ELSE [effects |-> <<first, Log("Telegram NetworkError"), again>>
                               \o (IF again.outcome # "ok"
                                   THEN <<Log("TelegramError")>> ELSE <<>>),
                   raised |-> FALSE]

\* send_msg(msg, bot, parse_mode): the effects of one call and whether an
\* exception leaves it, given the outcomes of its transport calls
send_msg(msg, parse_mode, net) ==
    IF ~is_enabled THEN [effects |-> <<>>, raised |-> FALSE]
    ELSE LET first == SendAttempt(msg, parse_mode, Outcome(net, 1))
             again == SendAttempt(msg, parse_mode, Outcome(net, 2))
         IN  IF first.outcome = "ok"
             THEN [effects |-> <<first>>, raised |-> FALSE]
             ELSE IF IsNetworkError(first.outcome)
             THEN IF again.outcome = "ok"
                  THEN [effects |-> <<first, Log("Telegram NetworkError"), again>>,
                        raised |-> FALSE]
                  ELSE IF IsTelegramError(again.outcome)
                  THEN [effects |-> <<first, Log("Telegram NetworkError"), again,
                                      Log("TelegramError")>>,
                        raised |-> FALSE]
                  ELSE [effects |-> <<first, Log("Telegram NetworkError"), again>>,
                        raised |-> TRUE]
             ELSE IF IsTelegramError(first.outcome)
             THEN [effects |-> <<first, Log("TelegramError")>>, raised |-> FALSE]
             ELSE [effects |-> <<first>>, raised |-> TRUE]

\* what a handler's call of send_msg does: no outcome of the transport makes
\* send_msg raise, so a handler goes on after it
Delivered(msg, parse_mode, net) == send_msg(msg, parse_mode, net).effects

\* faulty variant of build_menu: all the buttons in one row
build_menu_one_row(buttons, n_cols) ==
    IF buttons = <<>> THEN <<>> ELSE <<buttons>>

\* build_menu(buttons, n_cols): rows of n_cols buttons
build_menu(buttons, n_cols) ==
    [r \in 1..((Len(buttons) + n_cols - 1) \div n_cols) |->
        SubSeq(buttons, (r - 1) * n_cols + 1,
               IF r * n_cols < Len(buttons) THEN r * n_cols ELSE Len(buttons))]

InlineKeyboardButton(label, callback_data) ==
    [label |-> label, callback_data |-> callback_data]

\* _send_inline_keyboard_markup: its one transport call, which is not guarded
_send_inline_keyboard_markup(button_list, message_text, n_cols, query, outcome) ==
    LET reply_markup == [kind |-> "inline", rows |-> build_menu(button_list, n_cols)]
    IN  IF query = None
        THEN [api |-> "send_message", chat_id |-> _CONF.chat_id,
              text |-> message_text, parse_mode |-> "None",
              reply_markup |-> reply_markup, outcome |-> outcome]
        ELSE [api |-> "edit_message_text", chat_id |-> query.chat_id,
              message_id |-> query.message_id,
              text |-> message_text, parse_mode |-> "None",
              reply_markup |-> reply_markup, outcome |-> outcome]
(***************************************************************************)
(* Collaborators outside this file                                         *)
(***************************************************************************)
\* exchange.validate_pairs(pairs): TRUE when it returns, FALSE when it raises
\* OperationalException
validate_pairs(pairs) == \A i \in DOMAIN pairs : pairs[i] \in Markets

\* the call of update_config(_CONF), as an effect
update_config(cf, ok) == [api |-> "update_config", conf |-> cf, outcome |-> ok]

\* an assignment of the commit path, kept in the effects in its place among the
\* calls: _CONF[target] = value, _CONVERSATION = value, _UPDATED_COINS.clear()
Assign(target, value) == [api |-> "assign", target |-> target, value |-> value]

(***************************************************************************)
(* The conversation                                                        *)
(***************************************************************************)
ListName == IF list_type = "STATIC" THEN "Whitelist" ELSE "Blacklist"

list_to_update == IF list_type = "STATIC" THEN "pair_whitelist" ELSE "pair_blacklist"

EditHelp(head, coin) == [tag |-> head, coin |-> coin, list |-> ListName]

\* list.remove(x): the first occurrence goes
Remove(list, x) ==
    LET i == CHOOSE k \in DOMAIN list : list[k] = x /\ \A j \in 1..(k - 1) : list[j] # x
    IN  SubSeq(list, 1, i - 1) \o SubSeq(list, i + 1, Len(list))

InList(x, list) == \E i \in DOMAIN list : list[i] = x

\* faulty variant of request_input: the conversation is dropped to idle
request_input_idle(key, title, conv, net) ==
    Result("IDLE", _UPDATED_COINS, _CONF,
           Delivered([tag |-> "request_input", title |-> title, value |-> _CONF[key]],
                    "HTML", net),
           FALSE)

\* request_input(key, title, conv)
request_input(key, title, conv, net) ==
    Result(conv, _UPDATED_COINS, _CONF,
           Delivered([tag |-> "request_input", title |-> title, value |-> _CONF[key]],
                    "HTML", net),
           FALSE)

\* _send_coins_for_deletion(bot, message, query), on the working list as it is
\* when the call is made
_send_coins_for_deletion(coins, message, query, outcome) ==
    LET buttons_list ==
            [i \in DOMAIN coins |-> InlineKeyboardButton(coins[i], X_PREFIX \o coins[i])]
        call == _send_inline_keyboard_markup(buttons_list, message, 3, query, outcome)
    IN  Result("UPDATE_COINS", coins, _CONF, <<call>>, call.outcome # "ok")

\* the number of leading pairs of list that split("_", 1)[1] accepts
RECURSIVE Splittable(_)
Splittable(list) ==
    IF list = <<>> \/ ~HasSep(Head(list)) THEN 0 ELSE 1 + Splittable(Tail(list))

\* _callback(bot, update)
_callback(query, rpc_error, net) ==
    LET callback_data == query.data
    IN  IF callback_data = VIEW_CONFIG
        THEN IF rpc_error
             THEN Result(_CONVERSATION, _UPDATED_COINS, _CONF,
                         <<[api |-> "rpc_config", args |-> <<_CONF>>, error |-> TRUE]>>
                         \o Delivered([tag |-> "rpc_message", of |-> "rpc_config"],
                                      "MARKDOWN", net),
                         FALSE)
             ELSE LET call ==
                          [api |-> "edit_message_text", chat_id |-> query.chat_id,
                           message_id |-> query.message_id,
                           text |-> [tag |-> "config",
                                     max_open_trades |-> _CONF.max_open_trades,
                                     stake_amount |-> _CONF.stake_amount,
                                     stake_currency |-> _CONF.stake_currency,
                                     list |-> ListName],
                           parse_mode |-> "HTML", reply_markup |-> None,
                           outcome |-> Outcome(net, 1)]
                  IN  Result(_CONVERSATION, _UPDATED_COINS, _CONF,
                             <<[api |-> "rpc_config", args |-> <<_CONF>>,
                                error |-> FALSE], call>>,
                             call.outcome # "ok")
        ELSE IF callback_data = EDIT_CONFIG
        THEN LET call == _send_inline_keyboard_markup(
                             <<InlineKeyboardButton("Edit Max Open Trades",
                                                    EDIT_MAX_OPEN_TRADES),
                               InlineKeyboardButton("Edit Stake Amount", EDIT_STAKE_AMOUNT),
                               InlineKeyboardButton("Edit Pair " \o ListName, EDIT_PAIRS)>>,
                             [tag |-> "Select your action"], 1, query, Outcome(net, 1))
             IN  Result(_CONVERSATION, _UPDATED_COINS, _CONF, <<call>>,
                        call.outcome # "ok")
        ELSE IF callback_data = EDIT_MAX_OPEN_TRADES
        THEN request_input("max_open_trades", "max open trades", "MAX_OPEN_TRADES", net)
        ELSE IF callback_data = EDIT_STAKE_AMOUNT
        THEN request_input("stake_amount", "stake amount", "STAKE_AMOUNT", net)
        ELSE IF callback_data = EDIT_PAIRS
        THEN LET list_to_scan == _CONF[list_to_update]
                 n == Splittable(list_to_scan)
                 coins == _UPDATED_COINS \o [i \in 1..n |-> SplitTail(list_to_scan[i])]
             IN  IF n < Len(list_to_scan)
                 THEN Result(_CONVERSATION, coins, _CONF, <<>>, TRUE)
                 ELSE _send_coins_for_deletion(coins, [tag |-> "edit_pairs"], query,
                                               Outcome(net, 1))
        ELSE IF Contains(X_PREFIX, callback_data)
        THEN LET coin == SplitTail(callback_data)
             IN  IF InList(coin, _UPDATED_COINS)
                 THEN _send_coins_for_deletion(Remove(_UPDATED_COINS, coin),
                                               EditHelp("Removed", Upper(coin)), query,
                                               Outcome(net, 1))
                 ELSE Result(_CONVERSATION, _UPDATED_COINS, _CONF,
                             Delivered([tag |-> "already removed", coin |-> Upper(coin)],
                                      "MARKDOWN", net),
                             FALSE)
        ELSE Result(_CONVERSATION, _UPDATED_COINS, _CONF, <<>>, FALSE)
\* faulty variant of _process_config_update: the conversation is not reset
_process_config_update_no_reset(cf, persist_ok, net) ==
    IF persist_ok
    THEN Result(_CONVERSATION, _UPDATED_COINS, cf,
                <<update_config(cf, "ok")>>
                \o Delivered([tag |-> "Success"], "MARKDOWN", net),
                FALSE)
    ELSE Result(_CONVERSATION, _UPDATED_COINS, cf, <<update_config(cf, "raise")>>, TRUE)

\* faulty variant of _process_config_update: the acknowledgement goes out
\* before persistence is called
_process_config_update_ack_first(cf, persist_ok, net) ==
    IF persist_ok
    THEN Result("IDLE", _UPDATED_COINS, cf,
                Delivered([tag |-> "Success"], "MARKDOWN", net)
                \o <<update_config(cf, "ok"), Assign("_CONVERSATION", "IDLE")>>,
                FALSE)
    ELSE Result(_CONVERSATION, _UPDATED_COINS, cf,
                Delivered([tag |-> "Success"], "MARKDOWN", net)
                \o <<update_config(cf, "raise")>>, TRUE)

\* _process_config_update(), after the handler has written cf into _CONF
_process_config_update(cf, persist_ok, net) ==
    IF persist_ok
    THEN Result("IDLE", _UPDATED_COINS, cf,
                <<update_config(cf, "ok")>>
                \o Delivered([tag |-> "Success"], "MARKDOWN", net)
                \o <<Assign("_CONVERSATION", "IDLE")>>,
                FALSE)
    ELSE Result(_CONVERSATION, _UPDATED_COINS, cf, <<update_config(cf, "raise")>>, TRUE)

\* faulty variant of new_list: the coins taken last to first
new_list_reversed(stake_currency, coins) ==
    [i \in DOMAIN coins |-> JoinSep(stake_currency, coins[Len(coins) + 1 - i])]

\* faulty variant of new_list: the format arguments swapped
new_list_swapped(stake_currency, coins) ==
    [i \in DOMAIN coins |-> JoinSep(coins[i], stake_currency)]

\* new_list of _handle_coin_updation: every working coin, prefixed
new_list(stake_currency, coins) ==
    [i \in DOMAIN coins |-> JoinSep(stake_currency, coins[i])]

\* faulty variant of add_coin: the coin is appended whatever validate_pairs says
add_coin_unchecked(coin, net) ==
    LET pairs == <<JoinSep(_CONF.stake_currency, coin)>>
        check == [api |-> "validate_pairs", pairs |-> pairs]
    IN  IF InList(coin, _UPDATED_COINS)
        THEN Result(_CONVERSATION, _UPDATED_COINS, _CONF,
                    Delivered([tag |-> "already added", coin |-> coin,
                               list |-> ListName],
                              "MARKDOWN", net),
                    FALSE)
        ELSE LET shown == _send_coins_for_deletion(
                              Append(_UPDATED_COINS, coin),
                              EditHelp("Added", Upper(coin)), None, Outcome(net, 1))
             IN  [shown EXCEPT !.effects = <<check>> \o @]

\* the else branch of _handle_coin_updation: the text is a coin to add
add_coin(coin, net) ==
    LET pairs == <<JoinSep(_CONF.stake_currency, coin)>>
        check == [api |-> "validate_pairs", pairs |-> pairs]
    IN  IF InList(coin, _UPDATED_COINS)
        THEN Result(_CONVERSATION, _UPDATED_COINS, _CONF,
                    Delivered([tag |-> "already added", coin |-> coin,
                               list |-> ListName],
                              "MARKDOWN", net),
                    FALSE)
        ELSE IF ~validate_pairs(pairs)
        THEN LET shown == _send_coins_for_deletion(
                              _UPDATED_COINS, EditHelp("Failure", pairs), None,
                              Outcome(net, 1))
             IN  [shown EXCEPT !.effects = <<check>> \o @]
        ELSE LET shown == _send_coins_for_deletion(
                              Append(_UPDATED_COINS, coin),
                              EditHelp("Added", Upper(coin)), None, Outcome(net, 1))
             IN  [shown EXCEPT !.effects = <<check>> \o @]

\* _handle_coin_updation(bot, update)
_handle_coin_updation(user_text, persist_ok, net) ==
    LET stake_currency == _CONF.stake_currency
    IN  IF Upper(user_text) = DONE
        THEN LET saved == _process_config_update(
                              [_CONF EXCEPT ![list_to_update] =
                                  new_list(stake_currency, _UPDATED_COINS)],
                              persist_ok, net)
                 written == [saved EXCEPT
                                !.effects =
                                    <<Assign(list_to_update,
                                             new_list(stake_currency, _UPDATED_COINS))>>
                                    \o @]
             IN  IF saved.raised THEN written
                 ELSE [written EXCEPT
                          !.coins = <<>>,
                          !.effects = @ \o <<Assign("_UPDATED_COINS", <<>>)>>]
        ELSE add_coin(Upper(user_text), net)

\* _message_handler(bot, update)
_message_handler(text, persist_ok, net) ==
    IF _CONVERSATION = "MAX_OPEN_TRADES"
    THEN LET new_max_open_trades == ParseInt(text)
         IN  IF ~new_max_open_trades.ok
             THEN Result(_CONVERSATION, _UPDATED_COINS, _CONF,
                         Delivered([tag |-> "enter a valid number"], "MARKDOWN", net),
                         FALSE)
             ELSE LET saved == _process_config_update(
                                   [_CONF EXCEPT
                                       !.max_open_trades = new_max_open_trades.val],
                                   persist_ok, net)
                  IN  [saved EXCEPT
                          !.effects = <<Assign("max_open_trades",
                                               new_max_open_trades.val)>> \o @]
    ELSE IF _CONVERSATION = "STAKE_AMOUNT"
    THEN LET new_stake_amount == ParseFloat(text)
         IN  IF ~new_stake_amount.ok
             THEN Result(_CONVERSATION, _UPDATED_COINS, _CONF,
                         Delivered([tag |-> "enter a valid amount"], "MARKDOWN", net),
                         FALSE)
             ELSE LET saved == _process_config_update(
                                   [_CONF EXCEPT !.stake_amount = new_stake_amount.val],
                                   persist_ok, net)
                  IN  [saved EXCEPT
                          !.effects = <<Assign("stake_amount", new_stake_amount.val)>>
                                      \o @]
    ELSE IF _CONVERSATION = "UPDATE_COINS"
    THEN _handle_coin_updation(text, persist_ok, net)
    ELSE Result(_CONVERSATION, _UPDATED_COINS, _CONF, <<>>, FALSE)

(***************************************************************************)
(* The authorization gate and the text commands                            *)
(***************************************************************************)
\* authorized_only(command_handler): the wrapper, around the run `res` of the
\* wrapped handler for an update from chat_id
authorized_only(chat_id, res) ==
    IF chat_id # _CONF.chat_id
    THEN Result(_CONVERSATION, _UPDATED_COINS, _CONF,
                <<Log("Rejected unauthorized message")>>, FALSE)
    ELSE [res EXCEPT
             !.effects = <<Log("Executing handler")>> \o @
                         \o (IF res.raised THEN <<Log("Exception occurred")>> ELSE <<>>),
             !.raised = FALSE]

SLASH_STATUS == <<"/","s","t","a","t","u","s">>

SLASH_DAILY == <<"/","d","a","i","l","y">>

SLASH_FORCESELL == <<"/","f","o","r","c","e","s","e","l","l">>

TABLE == <<"t","a","b","l","e">>

RECURSIVE Replace(_, _)
\* s.replace(sub, '')
Replace(s, sub) ==
    IF s = <<>> THEN <<>>
    ELSE IF StartsWith(sub, s) THEN Replace(SubSeq(s, Len(sub) + 1, Len(s)), sub)
    ELSE <<Head(s)>> \o Replace(Tail(s), sub)

RECURSIVE Split(_)
\* s.split(' ')
Split(s) ==
    LET i == FirstOf({" "}, s)
    IN  IF i = 0 THEN <<s>>
        ELSE <<SubSeq(s, 1, i - 1)>> \o Split(SubSeq(s, i + 1, Len(s)))

\* the rest of a transport outcome list after k calls
Rest(net, k) == SubSeq(net, k + 1, Len(net))

Attempts(effects) == Len(SelectSeq(effects, LAMBDA e : e.api # "log"))

RECURSIVE SendEach(_, _)
\* for trademsg in trades: send_msg(trademsg, bot=bot)
SendEach(msgs, net) ==
    IF msgs = <<>> THEN <<>>
    ELSE LET sent == Delivered(Head(msgs), "MARKDOWN", net)
         IN  sent \o SendEach(Tail(msgs), Rest(net, Attempts(sent)))

\* a backend call of freqtrade.rpc, as an effect: (error, result) = fn(args)
Rpc(fn, args, error) == [api |-> fn, args |-> args, error |-> error]

\* the message a backend call returns with its failure flag
RpcMessage(fn) == [tag |-> "rpc_message", of |-> fn]

\* faulty variant of Reply: the handler ends the conversation
Reply_ending(effects) == Result("IDLE", <<>>, _CONF, effects, FALSE)

\* a handler that changes no state
Reply(effects) == Result(_CONVERSATION, _UPDATED_COINS, _CONF, effects, FALSE)

\* _status_table(bot, update), itself wrapped by authorized_only
_status_table(chat_id, rpc_error, net) ==
    authorized_only(chat_id,
        Reply(<<Rpc("rpc_status_table", <<>>, rpc_error)>>
              \o (IF rpc_error
                  THEN Delivered(RpcMessage("rpc_status_table"), "MARKDOWN", net)
                  ELSE Delivered([tag |-> "status table"], "HTML", net))))

\* _status(bot, update)
_status(chat_id, text, rpc_error, trades, net) ==
    LET params == Split(Replace(text, SLASH_STATUS))
    IN  IF InList(TABLE, params)
        THEN _status_table(chat_id, rpc_error, net)
        ELSE Reply(<<Rpc("rpc_trade_status", <<>>, rpc_error)>>
                   \o (IF rpc_error
                       THEN Delivered(RpcMessage("rpc_trade_status"), "MARKDOWN", net)
                       ELSE SendEach([i \in 1..trades |-> [tag |-> "trade", n |-> i]],
                                     net)))

\* _config(bot, update)
_config(net) ==
    LET call == _send_inline_keyboard_markup(
                    <<InlineKeyboardButton("View config", VIEW_CONFIG),
                      InlineKeyboardButton("Edit config", EDIT_CONFIG)>>,
                    [tag |-> "Okay, What do you want to do with config?"], 2, None,
                    Outcome(net, 1))
    IN  Result(_CONVERSATION, _UPDATED_COINS, _CONF, <<call>>, call.outcome # "ok")

\* _daily(bot, update)
_daily(text, rpc_error, net) ==
    LET parsed == ParseInt(Strip(Replace(text, SLASH_DAILY)))
        timescale == IF parsed.ok THEN parsed.val ELSE 7
    IN  Reply(<<Rpc("rpc_daily_profit", <<timescale>>, rpc_error)>>
              \o (IF rpc_error
                  THEN Delivered(RpcMessage("rpc_daily_profit"), "MARKDOWN", net)
                  ELSE Delivered([tag |-> "Daily Profit", days |-> timescale], "HTML",
                                net)))

\* _profit, _performance, _count: the backend's message on failure, the
\* formatted answer otherwise
Answer(fn, rpc_error, parse_mode, net) ==
    Reply(<<Rpc(fn, <<>>, rpc_error)>>
          \o (IF rpc_error
              THEN Delivered(RpcMessage(fn), "MARKDOWN", net)
              ELSE Delivered([tag |-> "answer", of |-> fn], parse_mode, net)))

\* _balance(bot, update)
_balance(rpc_error, net) ==
    Reply(<<Rpc("rpc_balance", <<>>, rpc_error)>>
          \o (IF rpc_error
              THEN Delivered([tag |-> "All balances are zero."], "MARKDOWN", net)
              ELSE Delivered([tag |-> "answer", of |-> "rpc_balance"], "MARKDOWN", net)))

\* _start(bot, update)
_start(rpc_error, net) ==
    Reply(<<Rpc("rpc_start", <<>>, rpc_error)>>
          \o (IF rpc_error THEN Delivered(RpcMessage("rpc_start"), "MARKDOWN", net)
              ELSE <<>>))

\* _stop(bot, update)
_stop(rpc_error, net) ==
    Reply(<<Rpc("rpc_stop", <<>>, rpc_error)>> \o Delivered(RpcMessage("rpc_stop"), "MARKDOWN", net))

\* _forcesell(bot, update)
_forcesell(text, rpc_error, net) ==
    LET trade_id == Strip(Replace(text, SLASH_FORCESELL))
    IN  Reply(<<Rpc("rpc_forcesell", <<trade_id>>, rpc_error)>>
              \o (IF rpc_error
                  THEN Delivered(RpcMessage("rpc_forcesell"), "MARKDOWN", net)
                  ELSE <<>>))

\* _help(bot, update)
_help(net) == Reply(Delivered([tag |-> "help"], "MARKDOWN", net))

\* _version(bot, update)
_version(net) == Reply(Delivered([tag |-> "Version"], "MARKDOWN", net))

\* the handlers init() registers, by command
handles(command, chat_id, text, rpc_error, trades, net) ==
    CASE command = "status" -> authorized_only(chat_id,
                                   _status(chat_id, text, rpc_error, trades, net))
      [] command = "profit" -> authorized_only(chat_id,
                                   Answer("rpc_trade_statistics", rpc_error, "MARKDOWN",
                                          net))
      [] command = "balance" -> authorized_only(chat_id, _balance(rpc_error, net))
      [] command = "start" -> authorized_only(chat_id, _start(rpc_error, net))
      [] command = "stop" -> authorized_only(chat_id, _stop(rpc_error, net))
      [] command = "forcesell" -> authorized_only(chat_id,
                                      _forcesell(text, rpc_error, net))
      [] command = "performance" -> authorized_only(chat_id,
                                        Answer("rpc_performance", rpc_error, "HTML", net))
      [] command = "daily" -> authorized_only(chat_id, _daily(text, rpc_error, net))
      [] command = "count" -> authorized_only(chat_id,
                                  Answer("rpc_count", rpc_error, "HTML", net))
      [] command = "config" -> authorized_only(chat_id, _config(net))
      [] command = "help" -> authorized_only(chat_id, _help(net))
      [] command = "version" -> authorized_only(chat_id, _version(net))

\* the commands that call the backend
Backed ==
    {"status", "profit", "balance", "start", "stop", "forcesell", "performance",
     "daily", "count"}

\* command updates the transport delivers: the command and the message text
CommandUpdates ==
    {[command |-> "status", text |-> SLASH_STATUS],
     [command |-> "status", text |-> SLASH_STATUS \o <<" ">> \o TABLE],
     [command |-> "daily", text |-> SLASH_DAILY],
     [command |-> "daily", text |-> SLASH_DAILY \o <<" ","3">>],
     [command |-> "daily", text |-> SLASH_DAILY \o <<" ","a","b","c">>],
     [command |-> "daily", text |-> SLASH_DAILY \o <<" ">> \o SLASH_DAILY \o <<"3">>],
     [command |-> "daily", text |-> SLASH_DAILY \o <<"@","b","o","t"," ","3">>],
     [command |-> "forcesell", text |-> SLASH_FORCESELL \o <<" ","1">>]}
    \cup
    {[command |-> "profit",
      text |-> <<"/","p","r","o","f","i","t">>],
     [command |-> "balance",
      text |-> <<"/","b","a","l","a","n","c","e">>],
     [command |-> "start",
      text |-> <<"/","s","t","a","r","t">>],
     [command |-> "stop",
      text |-> <<"/","s","t","o","p">>],
     [command |-> "performance",
      text |-> <<"/","p","e","r","f","o","r","m","a","n","c","e">>],
     [command |-> "count",
      text |-> <<"/","c","o","u","n","t">>],
     [command |-> "config",
      text |-> <<"/","c","o","n","f","i","g">>],
     [command |-> "help",
      text |-> <<"/","h","e","l","p">>],
     [command |-> "version",
      text |-> <<"/","v","e","r","s","i","o","n">>]}

\* how many open trades rpc_trade_status reports
TradeCounts == {1, 2}

(***************************************************************************)
(* The dispatcher's single worker                                          *)
(***************************************************************************)
\* what one handler run leaves in the state
Handled(update, pre_result) ==
    /\ _CONVERSATION' = pre_result.conv
    /\ _UPDATED_COINS' = pre_result.coins
    /\ _CONF' = pre_result.conf
    /\ run' = [kind |-> update.kind, update |-> update,
               before |-> [conv |-> _CONVERSATION, coins |-> _UPDATED_COINS,
                           conf |-> _CONF],
               effects |-> pre_result.effects, raised |-> pre_result.raised]
    /\ UNCHANGED list_type

\* CallbackQueryHandler(_callback): a button press arrives
CallbackQuery ==
    /\ run = NoRun
    /\ Listening("callback")
    /\ UNCHANGED _UPDATER
    /\ \E data \in Payloads, chat_id \in ChatIds, message_id \in MessageIds,
          net \in Nets :
       \E rpc_error \in IF data = VIEW_CONFIG THEN BOOLEAN ELSE {FALSE} :
          LET query == [kind |-> "callback", data |-> data, chat_id |-> chat_id,
                        message_id |-> message_id]
              res == _callback(query, rpc_error, net)
          IN  /\ Len(res.coins) <= MaxCoins
              /\ Handled(query, res)

\* MessageHandler(Filters.text, _message_handler): a free text arrives
TextMessage ==
    /\ run = NoRun
    /\ Listening("text")
    /\ UNCHANGED _UPDATER
    /\ \E text \in Texts, chat_id \in ChatIds, net \in Nets :
       \E persist_ok \in IF _CONVERSATION = "IDLE" THEN {TRUE} ELSE BOOLEAN :
          LET update == [kind |-> "text", text |-> text, chat_id |-> chat_id]
              res == _message_handler(text, persist_ok, net)
          IN  /\ Len(res.coins) <= MaxCoins
              /\ Handled(update, res)

\* CommandHandler(command, handler): a text command arrives
Command ==
    /\ run = NoRun
    /\ UNCHANGED _UPDATER
    /\ \E cu \in {c \in CommandUpdates : Listening(c.command)},
          chat_id \in ChatIds, net \in Nets :
       \E rpc_error \in IF cu.command \in Backed THEN BOOLEAN ELSE {FALSE} :
       \E trades \in IF cu.text = SLASH_STATUS /\ ~rpc_error THEN TradeCounts ELSE {1} :
          LET update == [kind |-> "command", command |-> cu.command, text |-> cu.text,
                         chat_id |-> chat_id]
          IN  Handled(update,
                      handles(cu.command, chat_id, cu.text, rpc_error, trades, net))

\* the trading loop calls send_msg(msg) to notify the chat
SendMsg ==
    /\ run = NoRun
    /\ _CONF # EmptyConf
    /\ UNCHANGED _UPDATER
    /\ \E parse_mode \in {"MARKDOWN", "HTML"}, net \in Nets :
          Handled([kind |-> "send_msg", text |-> [tag |-> "notification"],
                   parse_mode |-> parse_mode],
                  LET sent == send_msg([tag |-> "notification"], parse_mode, net)
                  IN  Result(_CONVERSATION, _UPDATED_COINS, _CONF, sent.effects,
                             sent.raised))

\* the handler has returned (or its exception has left it): the worker takes
\* the next update
Return ==
    /\ run # NoRun
    /\ run' = NoRun
    /\ UNCHANGED <<_CONF, _CONVERSATION, _UPDATED_COINS, list_type, _UPDATER>>

\* the application starts the module: init(config)
Startup ==
    /\ run = NoRun
    /\ _CONF = EmptyConf
    /\ \E config \in Configs :
          /\ _UPDATER' = init(config).updater
          /\ Handled([kind |-> "init", config |-> config],
                     Result(_CONVERSATION, _UPDATED_COINS, config,
                            init(config).effects, FALSE))

\* the application shuts the module down: cleanup()
Shutdown ==
    /\ run = NoRun
    /\ _CONF # EmptyConf
    /\ _UPDATER' = cleanup(_UPDATER).updater
    /\ Handled([kind |-> "cleanup"],
               Result(_CONVERSATION, _UPDATED_COINS, _CONF,
                      cleanup(_UPDATER).effects, FALSE))

\* the module as imported: nothing configured, no updater
Init ==
    /\ _CONF = EmptyConf
    /\ _UPDATER = None
    /\ _CONVERSATION = "IDLE"
    /\ _UPDATED_COINS = <<>>
    /\ list_type \in ListType
    /\ run = NoRun

Next ==
    Startup \/ Shutdown \/ Command \/ CallbackQuery \/ TextMessage \/ SendMsg \/ Return

Spec == Init /\ [][Next]_vars

\* the longest working list followed in the pair editor alone
MaxGrid == 4

\* the button presses of the pair editor
EditorPayloads == {EDIT_PAIRS, X_PREFIX \o ETH, X_PREFIX \o LTC}

\* the free texts of the pair editor
EditorTexts ==
    {<<"d","o","n","e">>, <<"e","t","h">>, <<"l","t","c">>, <<"a","b","c">>,
     <<"a","_","b">>}

\* CallbackQueryHandler(_callback): a button of the pair editor is pressed in
\* the configured chat
EditorCallback ==
    /\ run = NoRun
    /\ Listening("callback")
    /\ UNCHANGED _UPDATER
    /\ \E data \in EditorPayloads, message_id \in MessageIds, net \in Nets :
          LET query == [kind |-> "callback", data |-> data, chat_id |-> _CONF.chat_id,
                        message_id |-> message_id]
              res == _callback(query, FALSE, net)
          IN  /\ Len(res.coins) <= MaxGrid
              /\ Handled(query, res)

\* MessageHandler(Filters.text, _message_handler): a free text of the pair
\* editor arrives from the configured chat
EditorText ==
    /\ run = NoRun
    /\ Listening("text")
    /\ UNCHANGED _UPDATER
    /\ \E text \in EditorTexts, net \in Nets :
       \E persist_ok \in IF _CONVERSATION = "IDLE" THEN {TRUE} ELSE BOOLEAN :
          LET update == [kind |-> "text", text |-> text, chat_id |-> _CONF.chat_id]
              res == _message_handler(text, persist_ok, net)
          IN  /\ Len(res.coins) <= MaxGrid
              /\ Handled(update, res)

NextEditor == Startup \/ EditorCallback \/ EditorText \/ Return

\* the module driven through the pair editor only, with longer working lists
SpecEditor == Init /\ [][NextEditor]_vars

\* the free texts that end the pair edit
DoneTexts == {t \in Texts : Upper(t) = DONE}

\* edit_pairs was pressed while idle with an empty working list, its handler
\* has returned, and the next update the worker takes is the free text "done":
\* the run kept is that of the two handlers, from the state before the press
SeedThenDone ==
    /\ run # NoRun
    /\ run.kind = "callback"
    /\ run.update.data = EDIT_PAIRS
    /\ run.before.conv = "IDLE"
    /\ run.before.coins = <<>>
    /\ Listening("text")
    /\ UNCHANGED <<_UPDATER, list_type>>
    /\ \E text \in DoneTexts, net \in Nets, persist_ok \in BOOLEAN :
          LET res == _message_handler(text, persist_ok, net)
          IN  /\ _CONVERSATION' = res.conv
              /\ _UPDATED_COINS' = res.coins
              /\ _CONF' = res.conf
              /\ run' = [kind |-> "seed_done",
                         update |-> [kind |-> "text", text |-> text,
                                     chat_id |-> _CONF.chat_id],
                         before |-> run.before,
                         effects |-> run.effects \o res.effects,
                         raised |-> res.raised]

NextRoundTrip == NextEditor \/ SeedThenDone

\* the pair editor, with the sequence edit_pairs, "done" followed as one run
SpecRoundTrip == Init /\ [][NextRoundTrip]_vars
(***************************************************************************)
(* Properties                                                              *)
(***************************************************************************)
\* the calls a run made on the transport, in order
Transport(effects) ==
    SelectSeq(effects, LAMBDA e : e.api \in {"send_message", "edit_message_text"})

\* the run is that of an inbound event
InboundRun == run.kind \in {"command", "callback", "text"}

\* the run left conversation, working list and configuration as they were
StateKept ==
    /\ _CONVERSATION = run.before.conv
    /\ _UPDATED_COINS = run.before.coins
    /\ _CONF = run.before.conf

\* C1: an inbound event of any kind from a chat other than the configured one
\* produces no message and no message edit, and leaves the conversation step,
\* the working list and the configuration unchanged.
C1_UnauthorizedDropped ==
    (InboundRun /\ run.update.chat_id # _CONF.chat_id)
        => (Transport(run.effects) = <<>> /\ StateKept)

\* C2: every message and every message edit the router produces is addressed
\* to the configured chat, never to the chat of the inbound event.
C2_OnlyConfiguredChat ==
    run # NoRun
        => \A i \in DOMAIN Transport(run.effects) :
              Transport(run.effects)[i].chat_id = _CONF.chat_id

\* C3: an error raised inside a handler of an inbound event is caught at the
\* gate and never reaches the dispatcher.
C3_NoHandlerErrorEscapes == InboundRun => ~run.raised

NoDuplicates(list) ==
    \A i, j \in DOMAIN list : list[i] = list[j] => i = j

\* C4: the working list never holds a symbol more than once.
C4_WorkingPairsDistinct == NoDuplicates(_UPDATED_COINS)
\* "done" in every letter case
DoneSpellings ==
    {<<a, b, c, d>> : a \in {"d", "D"}, b \in {"o", "O"}, c \in {"n", "N"},
                      d \in {"e", "E"}}

\* a free text arrived while the pair list was being edited
PairEditText == run.kind = "text" /\ run.before.conv = "UPDATE_COINS"

DoneRun == PairEditText /\ run.update.text \in DoneSpellings

\* the configuration field the pair editor saves into, and the other one
EditedField == IF list_type = "STATIC" THEN "pair_whitelist" ELSE "pair_blacklist"

OtherField == IF list_type = "STATIC" THEN "pair_blacklist" ELSE "pair_whitelist"

\* stakeCurrency + "_" + symbol for every symbol of coins, in order
Prefixed(coins) ==
    [i \in DOMAIN coins |-> run.before.conf.stake_currency \o <<"_">> \o coins[i]]

\* the calls of the persistence collaborator in the run
Saves == SelectSeq(run.effects, LAMBDA e : e.api = "update_config")

\* the validation calls of the run
Validations == SelectSeq(run.effects, LAMBDA e : e.api = "validate_pairs")

DoneWritesList ==
    /\ _CONF = [run.before.conf EXCEPT ![EditedField] = Prefixed(run.before.coins)]
    /\ _CONF[OtherField] = run.before.conf[OtherField]

\* C5 as stated: after "done" in any letter case the saved list is the prefixed
\* working list in order, the conversation is idle and the working list empty.
C5_DoneCommitsAndResets ==
    DoneRun => (DoneWritesList /\ _CONVERSATION = "IDLE" /\ _UPDATED_COINS = <<>>)

\* C5 as amended: "done" in any letter case writes the prefixed working list,
\* in order, into the whitelist-or-blacklist field; the conversation is idle
\* and the working list empty afterwards when the persistence collaborator
\* returned, and both are as before when it raised.
C5_DoneCommits ==
    DoneRun =>
        /\ DoneWritesList
        /\ Len(Saves) = 1 /\ Saves[1].conf = _CONF
        /\ Saves[1].outcome = "ok" => (_CONVERSATION = "IDLE" /\ _UPDATED_COINS = <<>>)
        /\ Saves[1].outcome # "ok" =>
              (_CONVERSATION = "UPDATE_COINS" /\ _UPDATED_COINS = run.before.coins)

C5_Witness ==
    /\ DoneRun
    /\ run.update.text = <<"D","o","n","E">>
    /\ Len(run.before.coins) = 2 /\ run.before.coins[1] # run.before.coins[2]
    /\ _CONF[EditedField] # run.before.conf[EditedField]
    /\ _CONVERSATION = "IDLE"

\* the inline grid the run rendered last
LastGrid == Transport(run.effects)[Len(Transport(run.effects))]

Buttons(grid) ==
    LET rows == grid.reply_markup.rows
        flat[r \in 0..Len(rows)] == IF r = 0 THEN <<>> ELSE flat[r - 1] \o rows[r]
    IN  flat[Len(rows)]

\* C6: a free text adds a symbol to the working list only after the backend
\* validated the prefixed symbol in the same run; when validation fails the
\* working list and the conversation step stay and the grid is rendered again
\* with the failure reason.
C6_AddOnlyValidated ==
    /\ (run.kind = "text" /\ Len(_UPDATED_COINS) > Len(run.before.coins)) =>
          LET coin == _UPDATED_COINS[Len(_UPDATED_COINS)]
          IN  /\ _UPDATED_COINS = Append(run.before.coins, coin)
              /\ run.effects # <<>>
              /\ run.effects[1] =
                    [api |-> "validate_pairs",
                     pairs |-> <<run.before.conf.stake_currency \o <<"_">> \o coin>>]
              /\ run.effects[1].pairs[1] \in Markets
    /\ (PairEditText /\ Validations # <<>> /\ Validations[1].pairs[1] \notin Markets) =>
          /\ StateKept
          /\ _CONVERSATION = "UPDATE_COINS"
          /\ Transport(run.effects) # <<>>
          /\ LastGrid.text.tag = "Failure"
          /\ LastGrid.text.coin = Validations[1].pairs
          /\ LastGrid.reply_markup.kind = "inline"
          /\ Len(Buttons(LastGrid)) = Len(_UPDATED_COINS)

C6_Witness ==
    /\ PairEditText
    /\ Len(_UPDATED_COINS) = Len(run.before.coins) + 1
    /\ run.before.coins # <<>>
    /\ Validations # <<>>

\* the symbol of a remove button's payload "x_" + symbol
RemovedSymbol == SubSeq(run.update.data, 3, Len(run.update.data))

RemoveRun ==
    /\ run.kind = "callback" /\ run.before.conv = "UPDATE_COINS"
    /\ StartsWith(X_PREFIX, run.update.data)

\* C7: a remove button for a symbol that is not in the working list changes
\* nothing and is answered "already removed"; for a symbol that is in it, the
\* symbol is no longer in the list afterwards, the other symbols keep their
\* order and the grid is rendered with one button fewer; the conversation
\* stays in the pair edit either way.
C7_RemovePair ==
    RemoveRun =>
        /\ _CONVERSATION = "UPDATE_COINS"
        /\ ~InList(RemovedSymbol, run.before.coins) =>
              /\ _UPDATED_COINS = run.before.coins
              /\ Transport(run.effects) # <<>>
              /\ \A i \in DOMAIN Transport(run.effects) :
                    Transport(run.effects)[i].text.tag = "already removed"
        /\ InList(RemovedSymbol, run.before.coins) =>
              /\ ~InList(RemovedSymbol, _UPDATED_COINS)
              /\ _UPDATED_COINS =
                    SelectSeq(run.before.coins, LAMBDA c : c # RemovedSymbol)
              /\ Len(Buttons(LastGrid)) = Len(run.before.coins) - 1

\* the same, for working lists that hold no symbol twice
C7_RemovePairDistinct ==
    (RemoveRun /\ NoDuplicates(run.before.coins)) => C7_RemovePair

AllUpper(s) == \A i \in DOMAIN s : \A k \in DOMAIN LowerChars : s[i] # LowerChars[k]

\* a free text that spells, in some letter case, a symbol of the working list
RepeatAdd ==
    /\ PairEditText /\ run.update.text \notin DoneSpellings
    /\ \E i \in DOMAIN run.before.coins :
          /\ AllUpper(run.before.coins[i])
          /\ Lower(run.before.coins[i]) = Lower(run.update.text)

\* C8: adding, in any letter case, a symbol that an earlier add put into the
\* working list is answered "already added", makes no validation call and
\* leaves the working list and the conversation step as they were.
C8_RepeatAddRefused ==
    RepeatAdd =>
        /\ StateKept
        /\ _CONVERSATION = "UPDATE_COINS"
        /\ Validations = <<>>
        /\ Transport(run.effects) # <<>>
        /\ \A i \in DOMAIN Transport(run.effects) :
              /\ Transport(run.effects)[i].text.tag = "already added"
              /\ Transport(run.effects)[i].api = "send_message"

C8_Witness ==
    /\ RepeatAdd
    /\ list_type = "STATIC"
    /\ run.update.text = <<"l","t","c">>
    /\ Len(run.before.coins) = 2
\* the inputs that are integer literals, and the integers they spell
IntTexts == {<<"5">>}

IntSpelled(text) == CASE text = <<"5">> -> 5

\* the inputs that are float literals, and the values they spell
FloatTexts == {<<"5">>, <<"-","0",".","5">>}

FloatSpelled(text) ==
    CASE text = <<"5">> -> [kind |-> "num", m |-> 5, e |-> 0]
      [] text = <<"-","0",".","5">> -> [kind |-> "num", m |-> -5, e |-> -1]

MaxTradesText == run.kind = "text" /\ run.before.conv = "MAX_OPEN_TRADES"

StakeAmountText == run.kind = "text" /\ run.before.conv = "STAKE_AMOUNT"

\* the run answered with the given message through send_msg and nothing else
RepliedOnly(tag) ==
    /\ Transport(run.effects) # <<>>
    /\ \A i \in DOMAIN Transport(run.effects) :
          /\ Transport(run.effects)[i].text.tag = tag
          /\ Transport(run.effects)[i].api = "send_message"

Reprompted(tag) == RepliedOnly(tag) /\ StateKept /\ Saves = <<>>

\* C9 as stated: in the max-trades or stake-amount step a text that is no
\* number is answered with a re-prompt and changes nothing, without a call of
\* persistence; a text that is a number is written into the field,
\* persistence is called and the conversation is idle.
C9_NumberEditAlwaysIdle ==
    /\ (MaxTradesText /\ run.update.text \notin IntTexts) =>
          Reprompted("enter a valid number")
    /\ (StakeAmountText /\ run.update.text \notin FloatTexts) =>
          Reprompted("enter a valid amount")
    /\ (MaxTradesText /\ run.update.text \in IntTexts) =>
          /\ _CONF = [run.before.conf EXCEPT
                         !.max_open_trades = IntSpelled(run.update.text)]
          /\ Len(Saves) = 1
          /\ _CONVERSATION = "IDLE"
    /\ (StakeAmountText /\ run.update.text \in FloatTexts) =>
          /\ _CONF = [run.before.conf EXCEPT
                         !.stake_amount = FloatSpelled(run.update.text)]
          /\ Len(Saves) = 1
          /\ _CONVERSATION = "IDLE"

\* what a number edit does once its text has parsed
Committed ==
    /\ Len(Saves) = 1 /\ Saves[1].conf = _CONF
    /\ _UPDATED_COINS = run.before.coins
    /\ Saves[1].outcome = "ok" => _CONVERSATION = "IDLE"
    /\ Saves[1].outcome # "ok" => _CONVERSATION = run.before.conv

\* C9 as amended: a text that is no number is answered with a re-prompt and
\* changes nothing, without a call of persistence; a text that is a number is
\* written into the field and persistence is called once, and the conversation
\* is idle afterwards when persistence returned and stays in its step when
\* persistence raised.
C9_NumberEdit ==
    /\ (MaxTradesText /\ run.update.text \notin IntTexts) =>
          Reprompted("enter a valid number")
    /\ (StakeAmountText /\ run.update.text \notin FloatTexts) =>
          Reprompted("enter a valid amount")
    /\ (MaxTradesText /\ run.update.text \in IntTexts) =>
          /\ _CONF = [run.before.conf EXCEPT
                         !.max_open_trades = IntSpelled(run.update.text)]
          /\ Committed
    /\ (StakeAmountText /\ run.update.text \in FloatTexts) =>
          /\ _CONF = [run.before.conf EXCEPT
                         !.stake_amount = FloatSpelled(run.update.text)]
          /\ Committed

C9_Witness ==
    /\ MaxTradesText
    /\ run.update.text = <<"5">>
    /\ run.before.conf.max_open_trades = 3
    /\ _CONF.max_open_trades = 5
    /\ _CONVERSATION = "IDLE"

\* the arguments of a transport call
Arguments(call) == [call EXCEPT !.outcome = "ok"]

\* C10: one call of send_msg makes at most two delivery attempts with the same
\* arguments: one when the first succeeds or fails for good, two when the
\* first fails with a network error; it never makes a third, and no failure of
\* the transport reaches the caller.
C10_SendAtMostTwice ==
    (run.kind = "send_msg" /\ is_enabled) =>
        LET a == Transport(run.effects)
        IN  /\ ~run.raised
            /\ Len(a) \in {1, 2}
            /\ \A i \in DOMAIN a :
                  a[i].api = "send_message" /\ Arguments(a[i]) = Arguments(a[1])
            /\ a[1].text = run.update.text
            /\ a[1].parse_mode = run.update.parse_mode
            /\ a[1].outcome = "NetworkError" <=> Len(a) = 2

C10_Witness ==
    /\ run.kind = "send_msg" /\ is_enabled
    /\ Len(Transport(run.effects)) = 2
    /\ \A i \in 1..2 : Transport(run.effects)[i].outcome = "NetworkError"

\* the calls a run made on the updater
UpdaterCalls(effects) ==
    SelectSeq(effects,
              LAMBDA e : e.api \in {"Updater", "add_handler", "start_polling", "stop"})

\* C11: when the enabled flag is false no transport call is ever made: send_msg
\* returns without sending and without error, init registers no handler and
\* starts no polling, cleanup does nothing, and no handler ever runs.
C11_DisabledIsSilent ==
    (_CONF # EmptyConf /\ ~is_enabled)
        => /\ _UPDATER = None
           /\ run # NoRun
                => /\ run.kind \in {"init", "cleanup", "send_msg"}
                   /\ Transport(run.effects) = <<>>
                   /\ UpdaterCalls(run.effects) = <<>>
                   /\ run.effects = <<>>
                   /\ ~run.raised
                   /\ run.kind # "init" => StateKept

\* a notification is requested while the module is disabled
C11_Witness ==
    /\ _CONF # EmptyConf
    /\ ~is_enabled
    /\ run.kind = "send_msg"
    /\ run.effects = <<>>

\* the backend calls of the run
BackendCalls == SelectSeq(run.effects, LAMBDA e : "error" \in DOMAIN e)

\* every message of the run is the one the failed backend call returned
SurfacedOnly(call) ==
    /\ Transport(run.effects) # <<>>
    /\ \A j \in DOMAIN Transport(run.effects) :
          /\ Transport(run.effects)[j].api = "send_message"
          /\ Transport(run.effects)[j].text = RpcMessage(call.api)

\* C12: when the backend call of a command or of view_config returns the failure
\* flag, the reply sent is exactly the message the backend provided.
C12_BackendMessageSurfaced ==
    run # NoRun
        => \A i \in DOMAIN BackendCalls :
              BackendCalls[i].error => SurfacedOnly(BackendCalls[i])

\* the same for every backend call but rpc_balance
C12_SurfacedButBalance ==
    run # NoRun
        => \A i \in DOMAIN BackendCalls :
              (BackendCalls[i].error /\ BackendCalls[i].api # "rpc_balance")
                  => SurfacedOnly(BackendCalls[i])

\* the places in the run's effects where something of a kind happens
Places(Is(_)) == {i \in DOMAIN run.effects : Is(run.effects[i])}

EditableFields == {"max_open_trades", "stake_amount", "pair_whitelist", "pair_blacklist"}

\* an edit (max trades, stake amount, or done in the pair editor) completed:
\* persistence was called and returned
EditCompleted ==
    /\ run.kind = "text"
    /\ run.before.conv # "IDLE"
    /\ Saves # <<>>
    /\ Saves[1].outcome = "ok"

\* C13: on every successful completion of an edit the configuration field is
\* written first, then persistence is called with the written configuration,
\* then the acknowledgement is sent, and only then the conversation becomes
\* idle; no message goes out before persistence has been called.
C13_CommitOrder ==
    EditCompleted =>
        LET writes == Places(LAMBDA e : e.api = "assign" /\ e.target \in EditableFields)
            saves == Places(LAMBDA e : e.api = "update_config")
            acks == Places(LAMBDA e : e.api \in {"send_message", "edit_message_text"})
            idles == Places(LAMBDA e : e.api = "assign" /\ e.target = "_CONVERSATION")
        IN  /\ Cardinality(writes) = 1
            /\ Cardinality(saves) = 1
            /\ Cardinality(idles) = 1
            /\ acks # {}
            /\ \A w \in writes, p \in saves :
                  /\ w < p
                  /\ run.effects[p].conf[run.effects[w].target] = run.effects[w].value
                  /\ run.effects[p].conf = _CONF
            /\ \A p \in saves, a \in acks :
                  /\ p < a
                  /\ run.effects[a].api = "send_message"
                  /\ run.effects[a].text = [tag |-> "Success"]
            /\ \A a \in acks, i \in idles :
                  /\ a < i
                  /\ run.effects[i].value = "IDLE"
            /\ _CONVERSATION = "IDLE"

\* a stake amount was committed and acknowledged after a retried send
C13_Witness ==
    /\ EditCompleted
    /\ run.before.conv = "STAKE_AMOUNT"
    /\ Len(Transport(run.effects)) = 2
    /\ _CONF.stake_amount # run.before.conf.stake_amount

\* the argument of a command text: what follows the command token, stripped
ArgumentOf(text) ==
    LET i == FirstOf({" "}, text)
    IN  IF i = 0 THEN <<>> ELSE Strip(SubSeq(text, i + 1, Len(text)))

\* the lookback an argument text asks for
Lookback(argument) ==
    IF argument = <<>> THEN 7
    ELSE IF ParseInt(argument).ok THEN ParseInt(argument).val
    ELSE 7

\* an authorized /daily was handled
DailyRun ==
    /\ run.kind = "command"
    /\ run.update.command = "daily"
    /\ run.update.chat_id = _CONF.chat_id

\* C14: /daily passes to the backend a lookback of 7 when no argument is given,
\* n when the argument text parses as the integer n, and 7 when the argument
\* text does not parse as an integer.
C14_DailyLookback ==
    DailyRun =>
        /\ Len(BackendCalls) = 1
        /\ BackendCalls[1].api = "rpc_daily_profit"
        /\ BackendCalls[1].args = <<Lookback(ArgumentOf(run.update.text))>>

\* the same for the texts made of the bare command and one argument that does
\* not itself hold the command name
C14_DailyLookbackPlain ==
    (DailyRun /\ run.update.text \in {SLASH_DAILY, SLASH_DAILY \o <<" ","3">>,
                                      SLASH_DAILY \o <<" ","a","b","c">>})
        => /\ Len(BackendCalls) = 1
           /\ BackendCalls[1].api = "rpc_daily_profit"
           /\ BackendCalls[1].args =
                 <<IF run.update.text = SLASH_DAILY \o <<" ","3">> THEN 3 ELSE 7>>

\* an edit_pairs callback was processed
EditPairsRun == run.kind = "callback" /\ run.update.data = EDIT_PAIRS

\* the configured list the pair editor works on, before the run
ConfiguredPairs == run.before.conf[EditedField]

\* the configured symbols without the stake currency and its separator
Stripped(pairs) ==
    [i \in DOMAIN pairs |->
        SubSeq(pairs[i], Len(run.before.conf.stake_currency) + 2, Len(pairs[i]))]

\* what edit_pairs is to leave behind
Seeded ==
    /\ _UPDATED_COINS = Stripped(ConfiguredPairs)
    /\ _CONVERSATION = "UPDATE_COINS"
    /\ Transport(run.effects) # <<>>
    /\ Len(Buttons(LastGrid)) = Len(ConfiguredPairs)

\* C15: whenever an edit_pairs callback is processed, the working list is
\* afterwards exactly the configured list with the prefix stripped, in the
\* configured order, with nothing left over from an earlier edit; the
\* conversation is in the pair edit and the grid has one button per
\* configured pair.
C15_EditPairsSeeds == EditPairsRun => Seeded

\* the same, for an edit_pairs pressed while the working list is empty
C15_EditPairsSeedsEmpty == (EditPairsRun /\ run.before.coins = <<>>) => Seeded

\* the run changed the working list and left the pair edit in progress
PairsChanged ==
    /\ run.kind \in {"callback", "text"}
    /\ _UPDATED_COINS # run.before.coins
    /\ _CONVERSATION = "UPDATE_COINS"

\* the button of the pair editor for a symbol
RemoveButton(symbol) == [label |-> symbol, callback_data |-> X_PREFIX \o symbol]

\* C16: after every step that changes the working list while the pair edit is
\* in progress, the grid rendered last has exactly one button per element of
\* the working list, in the same order, each with payload "x_" + symbol, in
\* rows of at most 3 buttons.
C16_GridMatchesList ==
    PairsChanged =>
        /\ Transport(run.effects) # <<>>
        /\ LastGrid.reply_markup.kind = "inline"
        /\ Buttons(LastGrid) =
              [i \in DOMAIN _UPDATED_COINS |-> RemoveButton(_UPDATED_COINS[i])]
        /\ \A r \in DOMAIN LastGrid.reply_markup.rows :
              /\ Len(LastGrid.reply_markup.rows[r]) <= 3
              /\ Len(LastGrid.reply_markup.rows[r]) >= 1

\* a fourth symbol went into the working list and the grid took a second row
C16_Witness ==
    /\ PairsChanged
    /\ Len(_UPDATED_COINS) = 4
    /\ Len(run.before.coins) = 3
    /\ Len(LastGrid.reply_markup.rows) = 2

\* C17: in every reachable state the configured max open trade count is an
\* integer not below 0 and the stake amount is a number not below 0; no free
\* text accepted in the max-trades or stake-amount step commits a negative
\* value.
C17_ValuesNonNegative ==
    _CONF # EmptyConf
        => /\ _CONF.max_open_trades \in Nat
           /\ _CONF.stake_amount.kind = "num"
           /\ _CONF.stake_amount.m >= 0

\* the i-th transport call of the run is the first attempt at its message
FirstAttempt(i) ==
    LET calls == Transport(run.effects)
    IN  i = 1 \/ Arguments(calls[i - 1]) # Arguments(calls[i])
              \/ calls[i - 1].outcome = "ok"

\* the text "TelegramError" or "Exception occurred" was logged by the run
Logged(what) == \E i \in DOMAIN run.effects : run.effects[i] = Log(what)

\* C18: every message sent while an event is handled, the button grids
\* included, goes through the delivery contract: a first attempt that fails
\* with a transient error is followed by exactly one retry of the same
\* message, and a failed send raises nothing into the handler.
C18_AllThroughDelivery ==
    InboundRun =>
        LET calls == Transport(run.effects)
        IN  /\ \A i \in DOMAIN calls :
                  (FirstAttempt(i) /\ IsNetworkError(calls[i].outcome))
                      => /\ i + 1 \in DOMAIN calls
                         /\ Arguments(calls[i + 1]) = Arguments(calls[i])
                         /\ ~FirstAttempt(i + 1)
            /\ (\A i \in DOMAIN Saves : Saves[i].outcome = "ok")
                  => /\ ~run.raised
                     /\ ~Logged("Exception occurred")

\* the same, for the runs that render no button grid
C18_PlainThroughDelivery ==
    (InboundRun /\ \A i \in DOMAIN Transport(run.effects) :
                      Transport(run.effects)[i].reply_markup = ReplyKeyboard)
        => LET calls == Transport(run.effects)
           IN  /\ \A i \in DOMAIN calls :
                     (FirstAttempt(i) /\ IsNetworkError(calls[i].outcome))
                         => /\ i + 1 \in DOMAIN calls
                            /\ Arguments(calls[i + 1]) = Arguments(calls[i])
                            /\ ~FirstAttempt(i + 1)
               /\ (\A i \in DOMAIN Saves : Saves[i].outcome = "ok")
                     => /\ ~run.raised
                        /\ ~Logged("Exception occurred")

\* the five payloads matched exactly
Tokens == {VIEW_CONFIG, EDIT_CONFIG, EDIT_MAX_OPEN_TRADES, EDIT_STAKE_AMOUNT, EDIT_PAIRS}

\* a callback whose payload is "x_" + s was processed
PrefixedRun == run.kind = "callback" /\ StartsWith(X_PREFIX, run.update.data)

\* a callback whose payload is no token and does not start with "x_"
UnknownRun ==
    /\ run.kind = "callback"
    /\ run.update.data \notin Tokens
    /\ ~StartsWith(X_PREFIX, run.update.data)

\* the symbol s of the payload "x_" + s is the one the run worked on: it was
\* removed from the working list when it was there, and named in the reply
\* when it was not
ParsedExactly ==
    /\ InList(RemovedSymbol, run.before.coins) =>
          /\ Len(_UPDATED_COINS) = Len(run.before.coins) - 1
          /\ _UPDATED_COINS = Remove(run.before.coins, RemovedSymbol)
          /\ Transport(run.effects) # <<>>
          /\ LastGrid.text = EditHelp("Removed", Upper(RemovedSymbol))
    /\ ~InList(RemovedSymbol, run.before.coins) =>
          /\ _UPDATED_COINS = run.before.coins
          /\ Transport(run.effects) # <<>>
          /\ \A i \in DOMAIN Transport(run.effects) :
                Transport(run.effects)[i].text =
                    [tag |-> "already removed", coin |-> Upper(RemovedSymbol)]

\* C19: a payload is treated as a removal only when it starts with "x_", and
\* the symbol parsed from "x_" + s is exactly s, also when s holds "_"; a
\* payload that is none of the five tokens and does not start with "x_" gets
\* no reply and changes no state.
C19_PayloadParse ==
    /\ PrefixedRun => ParsedExactly
    /\ UnknownRun => (Transport(run.effects) = <<>> /\ StateKept)

\* the part of C19 about the payloads that start with "x_"
C19_PrefixParse == PrefixedRun => ParsedExactly

\* a free text was processed while the conversation was idle
IdleText == run.kind = "text" /\ run.before.conv = "IDLE"

\* C20: each of the 12 text commands, in any conversation step, and any free
\* text while idle, leaves the conversation step, the working list and the
\* configuration unchanged; a free text while idle gets no reply.
C20_CommandsKeepState ==
    /\ run.kind = "command" => StateKept
    /\ IdleText => (StateKept /\ run.effects = <<>> /\ ~run.raised)

\* a command was answered in the middle of a pair edit
C20_Witness ==
    /\ run.kind = "command"
    /\ run.update.chat_id = _CONF.chat_id
    /\ run.before.conv = "UPDATE_COINS"
    /\ run.before.coins # <<>>
    /\ Transport(run.effects) # <<>>
    /\ BackendCalls # <<>>

\* C21: in every reachable state, when the conversation is idle the working
\* list is empty, whatever the interleaving of edit callbacks and free texts.
C21_IdleMeansEmpty == _CONVERSATION = "IDLE" => _UPDATED_COINS = <<>>

\* C22: the conversation goes from a step other than idle to idle only in a
\* step that called persistence exactly once, and the call returned; no step
\* without a commit (a failed parse, a failed validation, a stale remove, a
\* repeated add) brings it to idle.
C22_IdleOnlyByCommit ==
    [][(_CONVERSATION # "IDLE" /\ _CONVERSATION' = "IDLE")
           => /\ run'.kind = "text"
              /\ Len(Saves') = 1
              /\ Saves'[1].outcome = "ok"
              /\ Saves'[1].conf = _CONF']_vars

\* a max-trades edit was committed and the conversation went idle
C22_Witness ==
    /\ run.kind = "text"
    /\ run.before.conv = "MAX_OPEN_TRADES"
    /\ _CONVERSATION = "IDLE"
    /\ Len(Saves) = 1
    /\ _CONF.max_open_trades # run.before.conf.max_open_trades

\* edit_pairs from idle with an empty working list, then "done" at once
RoundTrip == run.kind = "seed_done"

\* C23: from idle with an empty working list and a configured pair list of
\* symbols stake currency + "_" + coin, edit_pairs followed at once by "done"
\* leaves the configured pair list as it was: the same symbols in the same
\* order.
C23_SeedDoneRoundTrip ==
    RoundTrip =>
        /\ \A i \in DOMAIN ConfiguredPairs :
              StartsWith(run.before.conf.stake_currency \o <<"_">>, ConfiguredPairs[i])
        /\ _CONF[EditedField] = ConfiguredPairs
        /\ _CONF[OtherField] = run.before.conf[OtherField]
        /\ Len(Saves) = 1
        /\ Saves[1].conf[EditedField] = ConfiguredPairs

\* a list of two different symbols, the first with a coin that holds the
\* separator itself, went through the round trip and was saved
C23_Witness ==
    /\ RoundTrip
    /\ Len(ConfiguredPairs) >= 2
    /\ ConfiguredPairs[1] # ConfiguredPairs[2]
    /\ HasSep(SplitTail(ConfiguredPairs[1]))
    /\ _CONVERSATION = "IDLE"
    /\ _UPDATED_COINS = <<>>
=============================================================================
